---- MODULE Spec2Model ----
(***************************************************************************)
(* compiler/wasm/src/compile.rs: one invocation of `compile`.              *)
(*                                                                         *)
(* The state is the invocation's Context (the crate graph), the locals of  *)
(* `compile` and `add_noir_lib`, and the value the invocation ends with.   *)
(* The crate graph, the driver's prepare_crate / prepare_dependency /      *)
(* add_dep, the frontend and the optimizer live in other crates of the     *)
(* repository; they are modelled at their interface.                       *)
(***************************************************************************)
EXTENDS Naturals, Sequences, FiniteSets

\* Longest dependency list handed to compile.
MaxDeps == 3

BACKEND_IDENTIFIER == "acvm-backend-barretenberg"

----------------------------------------------------------------------------
(* Inputs *)

\* Option<T>: None is the empty sequence, Some(x) is <<x>>.
None == <<>>
Some(x) == <<x>>
IsSome(o) == o # <<>>
Unwrap(o) == o[1]

\* Paths are sequences of components.
EntryPoints == {<<"main.nr">>, <<"pkg_a", "src", "lib.nr">>}
StdLibPath == <<"std", "lib.nr">>

\* A name that CrateName::from_str refuses.
NotACrateName == ""

\* The Dependency objects handed to compile: three libraries with names and
\* package roots of their own, a second library named lib_x, a second name
\* for the library at pkg_a, and a library whose name is not a crate name.
DependencyValues ==
    { [name |-> "lib_x", package_root |-> <<"pkg_a">>],
      [name |-> "lib_y", package_root |-> <<"pkg_b">>],
      [name |-> "lib_z", package_root |-> <<"pkg_c">>],
      [name |-> "lib_x", package_root |-> <<"pkg_b">>],
      [name |-> "lib_y", package_root |-> <<"pkg_a">>],
      [name |-> NotACrateName, package_root |-> <<"pkg_c">>] }

\* A JS value of the dependency array: a Dependency object, or a value that
\* does not deserialize into one.
MalformedJsValue == [malformed |-> TRUE]
JsValues == DependencyValues \cup {MalformedJsValue}

RECURSIVE SeqsUpTo(_, _)
SeqsUpTo(S, n) ==
    IF n = 0 THEN {<<>>}
    ELSE LET shorter == SeqsUpTo(S, n - 1)
         IN  shorter \cup {Append(s, x) : s \in {t \in shorter : Len(t) = n - 1}, x \in S}

DependencyArrays == SeqsUpTo(JsValues, MaxDeps)

ContractsFlags == {None, Some(FALSE), Some(TRUE)}

\* What the frontend and the optimizer can hand back.
CompiledPrograms ==
    { [hash |-> 17, abi |-> "abi_main", circuit |-> "circuit_raw"],
      [hash |-> 23, abi |-> "abi_main", circuit |-> "circuit_opt"] }

ContractFunctions ==
    { [name |-> "transfer", function_type |-> "Secret", is_internal |-> FALSE,
       abi |-> "abi_transfer", bytecode |-> "bytecode_raw", debug |-> "debug_info"],
      [name |-> "mint", function_type |-> "Open", is_internal |-> TRUE,
       abi |-> "abi_mint", bytecode |-> "bytecode_opt", debug |-> "debug_info"] }

CompiledContracts ==
    { [name |-> "Token", functions |-> fs, events |-> <<"Transfer">>] :
        fs \in { <<>> } \cup { <<f>> : f \in ContractFunctions } }

----------------------------------------------------------------------------
VARIABLES
    entry_point,        \* compile's argument
    contracts,          \* compile's argument, Option<bool>
    dependencies_arg,   \* compile's argument, Option<DependencyArray>
    pc,                 \* position in compile / add_noir_lib
    arena,              \* crate graph: root file of each crate, by CrateId
    deps,               \* crate graph: outgoing edges of each crate, by CrateId
    root_crate_id,
    stdlib_crate_id,
    dependencies,       \* the deserialized Vec<Dependency>
    dep_i,              \* how many dependencies the for loop has taken
    library,            \* add_noir_lib's argument (Option)
    path_to_lib,
    library_crate_id,
    library_name,
    other_crate_ids,    \* what is left of the Vec the second loop walks
    compiled,           \* Option: the frontend's result
    optimized,          \* Option: the optimizer's result
    result,             \* what compile returns
    panic,              \* Option: the message the invocation aborted with
    calls,              \* history: the collaborator calls, in order
    linked,             \* history: one record per prepare_dependency call
    pre_deps,           \* history: deps when the running add_noir_lib was entered
    cycle_hit           \* history: some add_dep found a cycle

vars == <<entry_point, contracts, dependencies_arg, pc, arena, deps, root_crate_id,
          stdlib_crate_id, dependencies, dep_i, library, path_to_lib,
          library_crate_id, library_name, other_crate_ids, compiled, optimized,
          result, panic, calls, linked, pre_deps, cycle_hit>>

inputs == <<entry_point, contracts, dependencies_arg>>
graph == <<arena, deps, root_crate_id, stdlib_crate_id>>
lib_locals == <<library, path_to_lib, library_crate_id, library_name, other_crate_ids>>
pipeline == <<compiled, optimized, result>>

NoResult == [kind |-> "none"]
Ok(v) == [kind |-> "Ok", value |-> v]
Err(m) == [kind |-> "Err", message |-> m]
JsCompileError(m) == [message |-> m]

----------------------------------------------------------------------------
(* Crate graph *)

CrateIds == 1 .. Len(arena)

Targets(g, c) == { g[c][k].crate_id : k \in 1 .. Len(g[c]) }

\* Every crate reachable from the set S along the edges of g, S included.
RECURSIVE ReachableFrom(_, _)
ReachableFrom(g, S) ==
    LET step == S \cup UNION { Targets(g, c) : c \in S }
    IN  IF step = S THEN S ELSE ReachableFrom(g, step)

\* CrateGraph::add_dep(from, name, to) refuses an edge that closes a cycle.
AddDepIsCyclic(g, from, to) == from \in ReachableFrom(g, {to})

CrateGraphAddDep(g, from, name, to) ==
    [g EXCEPT ![from] = Append(@, [name |-> name, crate_id |-> to])]

\* iter_keys: the crate ids, in a fixed order.
RECURSIVE IterKeys(_)
IterKeys(n) == IF n = 0 THEN <<>> ELSE Append(IterKeys(n - 1), n)

\* CrateName::from_str
IsCrateName(s) == s # NotACrateName

\* package_root.join("src/lib.nr")
PathJoin(root, rel) == root \o rel

LIB_ENTRY_FILE == <<"src", "lib.nr">>

----------------------------------------------------------------------------
(* Panics *)

DeserializePanic ==
    [kind |-> "deserialize", site |-> "compile",
     message |-> "Could not deserialize dependency argument"]
CrateNamePanic(name) ==
    [kind |-> "crate_name", site |-> "add_noir_lib", library |-> name]
AddDepPanic ==
    [kind |-> "cyclic", site |-> "add_dep"]
CyclicErrorPanic(name) ==
    [kind |-> "cyclic", site |-> "add_noir_lib",
     message |-> <<"ICE: Cyclic error triggered by ", name, " library">>,
     library |-> name]
OptimizationPanic(what) ==
    [kind |-> "optimizer", site |-> "compile",
     message |-> <<what, " optimization failed">>]

----------------------------------------------------------------------------
Init ==
    /\ entry_point \in EntryPoints
    /\ contracts \in ContractsFlags
    /\ dependencies_arg \in {None} \cup {Some(a) : a \in DependencyArrays}
    /\ pc = "prepare_crate"
    /\ arena = <<>>
    /\ deps = <<>>
    /\ root_crate_id = 0
    /\ stdlib_crate_id = 0
    /\ dependencies = <<>>
    /\ dep_i = 0
    /\ library = None
    /\ path_to_lib = <<>>
    /\ library_crate_id = 0
    /\ library_name = ""
    /\ other_crate_ids = <<>>
    /\ compiled = None
    /\ optimized = None
    /\ result = NoResult
    /\ panic = None
    /\ calls = <<>>
    /\ linked = <<>>
    /\ pre_deps = <<>>
    /\ cycle_hit = FALSE

Abort(p) ==
    /\ pc' = "aborted"
    /\ panic' = Some(p)

Call(op, arg, ok) == calls' = Append(calls, [op |-> op, dep |-> arg, ok |-> ok])

\* prepare_crate: the builtin crate and the root crate enter the empty graph.
PrepareCrate ==
    /\ pc = "prepare_crate"
    /\ arena' = <<StdLibPath, entry_point>>
    /\ deps' = << <<>>, <<>> >>
    /\ stdlib_crate_id' = 1
    /\ root_crate_id' = 2
    /\ Call("prepare_crate", 0, TRUE)
    /\ pc' = "deserialize"
    /\ UNCHANGED <<inputs, dependencies, dep_i, lib_locals, pipeline, panic, linked,
                   pre_deps, cycle_hit>>

\* Keeps the first descriptor of every declared name.
RECURSIVE FirstOfEachName(_)
FirstOfEachName(list) ==
    IF list = <<>> THEN <<>>
    ELSE LET init == FirstOfEachName(SubSeq(list, 1, Len(list) - 1))
             last == list[Len(list)]
         IN  IF \E k \in 1 .. Len(init) : init[k].name = last.name
             THEN init
             ELSE Append(init, last)

\* Mutation: the descriptors are deduplicated by name while they are collected.
DeserializeDependencies_Dedup(arg) ==
    IF ~IsSome(arg) THEN Ok(<<>>)
    ELSE IF \E k \in 1 .. Len(Unwrap(arg)) : Unwrap(arg)[k] = MalformedJsValue
         THEN Err(DeserializePanic)
         ELSE Ok(FirstOfEachName(Unwrap(arg)))

\* dependencies.map(|array| array.iter().map(into_serde .. expect).collect())
\*             .unwrap_or_default()
DeserializeDependencies(arg) ==
    IF ~IsSome(arg) THEN Ok(<<>>)
    ELSE IF \E k \in 1 .. Len(Unwrap(arg)) : Unwrap(arg)[k] = MalformedJsValue
         THEN Err(DeserializePanic)
         ELSE Ok(Unwrap(arg))

Deserialize ==
    /\ pc = "deserialize"
    /\ LET r == DeserializeDependencies(dependencies_arg)
       IN  IF r.kind = "Err"
           THEN /\ Abort(r.message)
                /\ UNCHANGED dependencies
           ELSE /\ dependencies' = r.value
                /\ pc' = "for_dependencies"
                /\ UNCHANGED panic
    /\ UNCHANGED <<inputs, graph, dep_i, lib_locals, pipeline, calls, linked,
                   pre_deps, cycle_hit>>

\* Mutation: the loop stops one descriptor short.
LoopHasNext_SkipsLast(taken, list) == taken + 1 < Len(list)

\* for dependency in dependencies { add_noir_lib(&mut context, dependency); }
LoopHasNext(taken, list) == taken < Len(list)

ForDependencies_Next ==
    /\ pc = "for_dependencies"
    /\ LoopHasNext(dep_i, dependencies)
    /\ dep_i' = dep_i + 1
    /\ library' = Some(dependencies[dep_i + 1])
    /\ pre_deps' = deps
    /\ pc' = "prepare_dependency"
    /\ UNCHANGED <<inputs, graph, dependencies, path_to_lib, library_crate_id,
                   library_name, other_crate_ids, pipeline, panic, calls, linked,
                   cycle_hit>>

ForDependencies_Done ==
    /\ pc = "for_dependencies"
    /\ ~LoopHasNext(dep_i, dependencies)
    /\ pc' = "frontend"
    /\ UNCHANGED <<inputs, graph, dependencies, dep_i, lib_locals, pipeline, panic,
                   calls, linked, pre_deps, cycle_hit>>

----------------------------------------------------------------------------
(* add_noir_lib *)

\* prepare_dependency registers a new crate node for the library's entry file.
PrepareDependency(files, path) ==
    [crate_id |-> Len(files) + 1, fresh |-> TRUE]

\* prepare_dependency when a crate identifies its compilation unit: a file the
\* graph already holds resolves to the crate registered for it.
PrepareDependencyByFile(files, path) ==
    IF \E c \in 1 .. Len(files) : files[c] = path
    THEN [crate_id |-> CHOOSE c \in 1 .. Len(files) : files[c] = path, fresh |-> FALSE]
    ELSE [crate_id |-> Len(files) + 1, fresh |-> TRUE]

\* let path_to_lib = ..; let library_crate_id = prepare_dependency(context, &path_to_lib);
\* r is what prepare_dependency answers for path.
AddNoirLib_Resolve(path, r) ==
    /\ pc = "prepare_dependency"
    /\ path_to_lib' = path
    /\ library_crate_id' = r.crate_id
    /\ arena' = IF r.fresh THEN Append(arena, path) ELSE arena
    /\ deps' = IF r.fresh THEN Append(deps, <<>>) ELSE deps
    /\ linked' = Append(linked, [name |-> Unwrap(library).name,
                                 crate_id |-> r.crate_id, fresh |-> r.fresh])
    /\ Call("prepare_dependency", dep_i, TRUE)
    /\ pc' = "add_root_dep"
    /\ UNCHANGED <<inputs, root_crate_id, stdlib_crate_id, dependencies, dep_i,
                   library, library_name, other_crate_ids, pipeline, panic, pre_deps,
                   cycle_hit>>

AddNoirLib_PrepareDependency ==
    /\ pc = "prepare_dependency"
    /\ LET path == PathJoin(Unwrap(library).package_root, LIB_ENTRY_FILE)
       IN  AddNoirLib_Resolve(path, PrepareDependency(arena, path))

AddNoirLib_PrepareDependencyByFile ==
    /\ pc = "prepare_dependency"
    /\ LET path == PathJoin(Unwrap(library).package_root, LIB_ENTRY_FILE)
       IN  AddNoirLib_Resolve(path, PrepareDependencyByFile(arena, path))

\* Mutation: == for != in the stdlib comparison.
OtherCrateIds_StdlibTypo(keys, lib, root, stdlib) ==
    LET Keep(crate_id) == crate_id # lib /\ crate_id # root /\ crate_id = stdlib
    IN  SelectSeq(keys, Keep)

\* Mutation: the root crate is not filtered out.
OtherCrateIds_NoRootCheck(keys, lib, root, stdlib) ==
    LET Keep(crate_id) == crate_id # lib /\ crate_id # stdlib
    IN  SelectSeq(keys, Keep)

\* Mutation: == for != in the root comparison.
OtherCrateIds_RootTypo(keys, lib, root, stdlib) ==
    LET Keep(crate_id) == crate_id # lib /\ crate_id = root /\ crate_id # stdlib
    IN  SelectSeq(keys, Keep)

\* The crates the new library is attached to: every crate but the library
\* itself, the root crate and the stdlib crate.
OtherCrateIds(keys, lib, root, stdlib) ==
    LET Keep(crate_id) == crate_id # lib /\ crate_id # root /\ crate_id # stdlib
    IN  SelectSeq(keys, Keep)

AfterAttach(others) == IF others = <<>> THEN "for_dependencies" ELSE "attach_others"

\* CrateName::from_str(..).unwrap(); add_dep(root, library, name); collect the
\* other crate ids.
AddNoirLib_AddRootDep ==
    /\ pc = "add_root_dep"
    /\ LET name == Unwrap(library).name
       IN  IF ~IsCrateName(name)
           THEN /\ Abort(CrateNamePanic(name))
                /\ UNCHANGED <<deps, library_name, other_crate_ids, calls, cycle_hit>>
           ELSE /\ library_name' = name
                /\ Call("add_dep", dep_i,
                        ~AddDepIsCyclic(deps, root_crate_id, library_crate_id))
                /\ IF AddDepIsCyclic(deps, root_crate_id, library_crate_id)
                   THEN /\ Abort(AddDepPanic)
                        /\ cycle_hit' = TRUE
                        /\ UNCHANGED <<deps, other_crate_ids>>
                   ELSE /\ deps' = CrateGraphAddDep(deps, root_crate_id, name,
                                                     library_crate_id)
                        /\ other_crate_ids' =
                              OtherCrateIds(IterKeys(Len(arena)), library_crate_id,
                                            root_crate_id, stdlib_crate_id)
                        /\ pc' = AfterAttach(other_crate_ids')
                        /\ UNCHANGED <<panic, cycle_hit>>
    /\ UNCHANGED <<inputs, arena, root_crate_id, stdlib_crate_id, dependencies, dep_i,
                   library, path_to_lib, library_crate_id, pipeline, linked, pre_deps>>

\* Mutation: the Err of add_dep is dropped instead of raised.
AttachOrPanic_SwallowsError(g, crate_id, name, lib) ==
    IF AddDepIsCyclic(g, crate_id, lib)
    THEN [graph |-> g, panic |-> None]
    ELSE [graph |-> CrateGraphAddDep(g, crate_id, name, lib), panic |-> None]

\* Mutation: the two crate arguments of add_dep are exchanged.
AttachOrPanic_SwappedEnds(g, crate_id, name, lib) ==
    IF AddDepIsCyclic(g, lib, crate_id)
    THEN [graph |-> g, panic |-> Some(CyclicErrorPanic(name))]
    ELSE [graph |-> CrateGraphAddDep(g, lib, name, crate_id), panic |-> None]

\* crate_graph.add_dep(crate_id, name, library).unwrap_or_else(|_| panic!(..))
AttachOrPanic(g, crate_id, name, lib) ==
    IF AddDepIsCyclic(g, crate_id, lib)
    THEN [graph |-> g, panic |-> Some(CyclicErrorPanic(name))]
    ELSE [graph |-> CrateGraphAddDep(g, crate_id, name, lib), panic |-> None]

AddNoirLib_AttachOther ==
    /\ pc = "attach_others"
    /\ other_crate_ids # <<>>
    /\ LET crate_id == Head(other_crate_ids)
           r == AttachOrPanic(deps, crate_id, library_name, library_crate_id)
       IN  /\ Call("crate_graph.add_dep", dep_i,
                   ~AddDepIsCyclic(deps, crate_id, library_crate_id))
           /\ cycle_hit' = (cycle_hit \/ AddDepIsCyclic(deps, crate_id, library_crate_id))
           /\ deps' = r.graph
           /\ IF IsSome(r.panic)
              THEN /\ Abort(Unwrap(r.panic))
                   /\ UNCHANGED other_crate_ids
              ELSE /\ other_crate_ids' = Tail(other_crate_ids)
                   /\ pc' = AfterAttach(other_crate_ids')
                   /\ UNCHANGED panic
    /\ UNCHANGED <<inputs, arena, root_crate_id, stdlib_crate_id, dependencies, dep_i,
                   library, path_to_lib, library_crate_id, library_name, pipeline,
                   linked, pre_deps>>

----------------------------------------------------------------------------
(* compile: frontend, optimizer, shaper *)

\* Mutation: unwrap_or(true).
ContractMode_DefaultsToTrue(flag) == IF IsSome(flag) THEN Unwrap(flag) ELSE TRUE

\* contracts.unwrap_or_default()
ContractMode(flag) == IF IsSome(flag) THEN Unwrap(flag) ELSE FALSE

FAILED_CONTRACT == "Failed to compile contract"
\* Mutation: the contract branch's message pasted into the program branch.
FAILED_PROGRAM_Pasted == "Failed to compile contract"
FAILED_PROGRAM == "Failed to compile program"

\* compile_contract(..).map_err(|_| JsCompileError::new(..))?
CompileContract_Ok ==
    /\ pc = "frontend"
    /\ ContractMode(contracts)
    /\ \E c \in CompiledContracts : compiled' = Some(c)
    /\ Call("compile_contract", 0, TRUE)
    /\ pc' = "optimize_contract"
    /\ UNCHANGED <<inputs, graph, dependencies, dep_i, lib_locals, optimized, result,
                   panic, linked, pre_deps, cycle_hit>>

CompileContract_Err ==
    /\ pc = "frontend"
    /\ ContractMode(contracts)
    /\ result' = Err(JsCompileError(FAILED_CONTRACT))
    /\ Call("compile_contract", 0, FALSE)
    /\ pc' = "returned"
    /\ UNCHANGED <<inputs, graph, dependencies, dep_i, lib_locals, compiled, optimized,
                   panic, linked, pre_deps, cycle_hit>>

\* nargo::ops::optimize_contract(..).expect("Contract optimization failed")
OptimizeContract_Ok ==
    /\ pc = "optimize_contract"
    /\ \E c \in CompiledContracts : optimized' = Some(c)
    /\ compiled' = None
    /\ Call("optimize_contract", 0, TRUE)
    /\ pc' = "preprocess_contract"
    /\ UNCHANGED <<inputs, graph, dependencies, dep_i, lib_locals, result, panic,
                   linked, pre_deps, cycle_hit>>

OptimizeContract_Err ==
    /\ pc = "optimize_contract"
    /\ compiled' = None
    /\ Call("optimize_contract", 0, FALSE)
    /\ Abort(OptimizationPanic("Contract"))
    /\ UNCHANGED <<inputs, graph, dependencies, dep_i, lib_locals, optimized, result,
                   linked, pre_deps, cycle_hit>>

preprocess_function(func) ==
    [name |-> func.name, function_type |-> func.function_type,
     is_internal |-> func.is_internal, abi |-> func.abi, bytecode |-> func.bytecode]

preprocess_contract(contract) ==
    [name |-> contract.name,
     backend |-> BACKEND_IDENTIFIER,
     functions |-> [k \in 1 .. Len(contract.functions) |->
                       preprocess_function(contract.functions[k])],
     events |-> contract.events]

PreprocessContract ==
    /\ pc = "preprocess_contract"
    /\ result' = Ok(preprocess_contract(Unwrap(optimized)))
    /\ optimized' = None
    /\ Call("preprocess_contract", 0, TRUE)
    /\ pc' = "returned"
    /\ UNCHANGED <<inputs, graph, dependencies, dep_i, lib_locals, compiled, panic,
                   linked, pre_deps, cycle_hit>>

\* compile_main(..).map_err(|_| JsCompileError::new(..))?
CompileMain_Ok ==
    /\ pc = "frontend"
    /\ ~ContractMode(contracts)
    /\ \E p \in CompiledPrograms : compiled' = Some(p)
    /\ Call("compile_main", 0, TRUE)
    /\ pc' = "optimize_program"
    /\ UNCHANGED <<inputs, graph, dependencies, dep_i, lib_locals, optimized, result,
                   panic, linked, pre_deps, cycle_hit>>

CompileMain_Err ==
    /\ pc = "frontend"
    /\ ~ContractMode(contracts)
    /\ result' = Err(JsCompileError(FAILED_PROGRAM))
    /\ Call("compile_main", 0, FALSE)
    /\ pc' = "returned"
    /\ UNCHANGED <<inputs, graph, dependencies, dep_i, lib_locals, compiled, optimized,
                   panic, linked, pre_deps, cycle_hit>>

\* nargo::ops::optimize_program(..).expect("Program optimization failed")
OptimizeProgram_Ok ==
    /\ pc = "optimize_program"
    /\ \E p \in CompiledPrograms : optimized' = Some(p)
    /\ compiled' = None
    /\ Call("optimize_program", 0, TRUE)
    /\ pc' = "preprocess_program"
    /\ UNCHANGED <<inputs, graph, dependencies, dep_i, lib_locals, result, panic,
                   linked, pre_deps, cycle_hit>>

OptimizeProgram_Err ==
    /\ pc = "optimize_program"
    /\ compiled' = None
    /\ Call("optimize_program", 0, FALSE)
    /\ Abort(OptimizationPanic("Program"))
    /\ UNCHANGED <<inputs, graph, dependencies, dep_i, lib_locals, optimized, result,
                   linked, pre_deps, cycle_hit>>

\* Mutation: the backend field taken from the optimized program.
preprocess_program_BackendFromProgram(program) ==
    [hash |-> program.hash,
     backend |-> program.circuit,
     abi |-> program.abi,
     bytecode |-> program.circuit]

preprocess_program(program) ==
    [hash |-> program.hash,
     backend |-> BACKEND_IDENTIFIER,
     abi |-> program.abi,
     bytecode |-> program.circuit]

PreprocessProgram ==
    /\ pc = "preprocess_program"
    /\ result' = Ok(preprocess_program(Unwrap(optimized)))
    /\ optimized' = None
    /\ Call("preprocess_program", 0, TRUE)
    /\ pc' = "returned"
    /\ UNCHANGED <<inputs, graph, dependencies, dep_i, lib_locals, compiled, panic,
                   linked, pre_deps, cycle_hit>>

----------------------------------------------------------------------------
Pipeline ==
    \/ PrepareCrate
    \/ Deserialize
    \/ ForDependencies_Next
    \/ ForDependencies_Done
    \/ AddNoirLib_AddRootDep
    \/ AddNoirLib_AttachOther
    \/ CompileContract_Ok
    \/ CompileContract_Err
    \/ OptimizeContract_Ok
    \/ OptimizeContract_Err
    \/ PreprocessContract
    \/ CompileMain_Ok
    \/ CompileMain_Err
    \/ OptimizeProgram_Ok
    \/ OptimizeProgram_Err
    \/ PreprocessProgram

\* Every descriptor gets a crate node of its own.
Next == Pipeline \/ AddNoirLib_PrepareDependency

Spec == Init /\ [][Next]_vars

\* A descriptor whose entry file the graph already holds resolves to the crate
\* registered for that file.
NextByFile == Pipeline \/ AddNoirLib_PrepareDependencyByFile

SpecByFile == Init /\ [][NextByFile]_vars

----------------------------------------------------------------------------
(* Vocabulary of the properties *)

LibraryCrates == { c \in CrateIds : c # root_crate_id /\ c # stdlib_crate_id }

HasEdge(c, name, to) ==
    \E k \in 1 .. Len(deps[c]) : deps[c][k] = [name |-> name, crate_id |-> to]

Acyclic(g) == \A c \in 1 .. Len(g) : c \notin ReachableFrom(g, Targets(g, c))

UniqueEdgeNames ==
    \A c \in 1 .. Len(deps) : \A i, j \in 1 .. Len(deps[c]) :
        i # j => deps[c][i].name # deps[c][j].name

IsPrefix(s, t) == Len(s) <= Len(t) /\ \A k \in 1 .. Len(s) : s[k] = t[k]

OptimizerAbort == pc = "aborted" /\ Unwrap(panic).kind = "optimizer"

\* The for loop over the dependencies is over.
PastLinking ==
    \/ pc \in {"frontend", "optimize_contract", "optimize_program",
               "preprocess_contract", "preprocess_program", "returned"}
    \/ OptimizerAbort

\* The add_noir_lib call for the j-th descriptor has returned.
LibraryLinked(j) ==
    /\ j \in 1 .. Len(linked)
    /\ (j < dep_i \/ pc = "for_dependencies" \/ PastLinking)

AllFresh == \A k \in 1 .. Len(linked) : linked[k].fresh

DistinctLinkedNames ==
    \A i, j \in 1 .. Len(linked) : i # j => linked[i].name # linked[j].name

Terminated == pc \in {"returned", "aborted"}

FrontendOps == {"compile_main", "compile_contract"}
OptimizerOps == {"optimize_program", "optimize_contract"}
ShaperOps == {"preprocess_program", "preprocess_contract"}
ProgramOps == {"compile_main", "optimize_program", "preprocess_program"}
ContractOps == {"compile_contract", "optimize_contract", "preprocess_contract"}
LinkOps == {"prepare_dependency", "add_dep", "crate_graph.add_dep"}
EdgeOps == {"add_dep", "crate_graph.add_dep"}

IsProgramArtifact(v) == DOMAIN v = {"hash", "backend", "abi", "bytecode"}
IsContractArtifact(v) == DOMAIN v = {"name", "backend", "functions", "events"}

----------------------------------------------------------------------------
(* C1 *)

\* C1, as stated: once two libraries that each got a crate of their own are
\* linked, each of the two has an edge to the other under the other's name.
C1_FullMeshBothWays ==
    AllFresh =>
        \A i, j \in 1 .. Len(linked) :
            (i # j /\ LibraryLinked(i) /\ LibraryLinked(j)) =>
                HasEdge(linked[i].crate_id, linked[j].name, linked[j].crate_id)

\* C1, amended: once two libraries that each got a crate of their own are
\* linked, the one linked first has an edge to the one linked later under the
\* later one's name, and the later one has no edge to the earlier one.
C1_MeshTowardsLaterLibraries ==
    AllFresh =>
        \A i, j \in 1 .. Len(linked) :
            (i < j /\ LibraryLinked(j)) =>
                /\ HasEdge(linked[i].crate_id, linked[j].name, linked[j].crate_id)
                /\ linked[i].crate_id \notin Targets(deps, linked[j].crate_id)

C1_ThreeFreshLibrariesLinked ==
    /\ AllFresh
    /\ Len(linked) = 3
    /\ LibraryLinked(3)
    /\ Len(deps[linked[1].crate_id]) = 2

----------------------------------------------------------------------------
(* C2 *)

----------------------------------------------------------------------------
(* C3 *)

----------------------------------------------------------------------------
(* C4 *)

WellFormed(arg) ==
    /\ IsSome(arg)
    /\ \A k \in 1 .. Len(Unwrap(arg)) :
          /\ Unwrap(arg)[k] # MalformedJsValue
          /\ IsCrateName(Unwrap(arg)[k].name)

SharesAName(arg) ==
    \E i, j \in 1 .. Len(Unwrap(arg)) :
        i # j /\ Unwrap(arg)[i].name = Unwrap(arg)[j].name

----------------------------------------------------------------------------
(* C5 *)

\* C5: a successful invocation returns a preprocessed contract exactly when
\* contracts is Some(true) and a preprocessed program when it is None or
\* Some(false); and in every state only the frontend, optimizer and shaper of
\* that mode have been called.
C5_FlagSelectsVariant ==
    /\ result.kind = "Ok" =>
          /\ IsContractArtifact(result.value) <=> contracts = Some(TRUE)
          /\ IsProgramArtifact(result.value) <=> contracts \in {None, Some(FALSE)}
    /\ \A k \in 1 .. Len(calls) :
          /\ calls[k].op \in ContractOps => contracts = Some(TRUE)
          /\ calls[k].op \in ProgramOps => contracts \in {None, Some(FALSE)}

C5_ProgramByDefault ==
    /\ contracts = None
    /\ result.kind = "Ok"
    /\ IsProgramArtifact(result.value)

----------------------------------------------------------------------------
(* C6 *)

FrontendFailed == \E k \in 1 .. Len(calls) : calls[k].op \in FrontendOps /\ ~calls[k].ok

\* C6: when the frontend has failed, compile has returned the error whose
\* message is "Failed to compile contract" in contract mode and "Failed to
\* compile program" in program mode; the frontend was called once, and the
\* optimizer and the shaper were not called.
C6_FrontendFailureIsReported ==
    FrontendFailed =>
        /\ pc = "returned"
        /\ panic = None
        /\ result = [kind |-> "Err",
                     message |-> [message |->
                        IF contracts = Some(TRUE) THEN "Failed to compile contract"
                                                  ELSE "Failed to compile program"]]
        /\ Cardinality({k \in 1 .. Len(calls) : calls[k].op \in FrontendOps}) = 1
        /\ \A k \in 1 .. Len(calls) : calls[k].op \notin OptimizerOps \cup ShaperOps
        /\ compiled = None
        /\ optimized = None

C6_ProgramFrontendFailed ==
    /\ FrontendFailed
    /\ contracts = Some(FALSE)
    /\ result.kind = "Err"
    /\ Len(linked) = 2

----------------------------------------------------------------------------
(* C7 *)

\* C7: the backend field of every artifact compile returns is
\* "acvm-backend-barretenberg", whatever the optimizer handed back.
C7_BackendIsFixed ==
    result.kind = "Ok" => result.value.backend = "acvm-backend-barretenberg"

C7_ProgramArtifactReturned ==
    /\ result.kind = "Ok"
    /\ IsProgramArtifact(result.value)
    /\ result.value.bytecode = "circuit_opt"
    /\ result.value.hash = 23

----------------------------------------------------------------------------
(* C8 *)

InAddNoirLib == pc \in {"prepare_dependency", "add_root_dep", "attach_others"}

AddNoirLibReturned == dep_i > 0 /\ pc = "for_dependencies"

\* C8: an add_noir_lib call leaves the edges that existed when it was entered
\* in place, adds no edge leaving the stdlib crate and no edge from a library
\* to itself, adds at most one edge leaving the root while it runs and, once
\* it has returned, exactly one: root to the new library under the
\* descriptor's name. With no dependency the root has no edge after the loop.
C8_FrameOfAddNoirLib ==
    /\ \A c \in 1 .. Len(pre_deps) : IsPrefix(pre_deps[c], deps[c])
    /\ stdlib_crate_id # 0 => deps[stdlib_crate_id] = <<>>
    /\ \A c \in LibraryCrates : c \notin Targets(deps, c)
    /\ InAddNoirLib =>
          Len(deps[root_crate_id]) <= Len(pre_deps[root_crate_id]) + 1
    /\ AddNoirLibReturned =>
          deps[root_crate_id] =
              Append(pre_deps[root_crate_id],
                     [name |-> Unwrap(library).name, crate_id |-> library_crate_id])
    /\ (PastLinking /\ dependencies = <<>>) => deps[root_crate_id] = <<>>

C8_ThirdCallReturned ==
    /\ AddNoirLibReturned
    /\ dep_i = 3
    /\ Len(pre_deps[root_crate_id]) = 2
    /\ Len(deps[3]) = 2

----------------------------------------------------------------------------
(* C9 *)

CallsBefore(p, ops, d) ==
    Cardinality({q \in 1 .. p - 1 : calls[q].op \in ops /\ calls[q].dep = d})

\* C9: prepare_crate is the first call; the descriptors are linked in list
\* order, the k-th one with its k edges added before the next crate is
\* registered; the frontend is called at most once, and once when compile
\* returns, after every descriptor is linked and before the optimizer and the
\* shaper; the optimizer directly follows a successful
\* frontend call and the shaper a successful optimizer call; and an invocation
\* that has ended has exactly one of an artifact, the compile error or a panic,
\* while one that has not ended has none and can take a step.
C9_StageOrder ==
    /\ calls # <<>> => calls[1].op = "prepare_crate"
    /\ \A p \in 2 .. Len(calls) : calls[p].op # "prepare_crate"
    /\ \A k \in 1 .. Len(linked) : linked[k].name = dependencies[k].name
    /\ \A p \in 1 .. Len(calls) :
          /\ calls[p].op = "prepare_dependency" =>
                LET k == calls[p].dep
                IN  /\ CallsBefore(p, {"prepare_dependency"}, k) = 0
                    /\ \A d \in 1 .. k - 1 :
                          /\ CallsBefore(p, {"prepare_dependency"}, d) = 1
                          /\ CallsBefore(p, EdgeOps, d) = d
                    /\ \A q \in p + 1 .. Len(calls) :
                          calls[q].op \in LinkOps => calls[q].dep >= k
          /\ calls[p].op \in EdgeOps =>
                CallsBefore(p, {"prepare_dependency"}, calls[p].dep) = 1
          /\ calls[p].op \in FrontendOps =>
                /\ \A d \in 1 .. Len(dependencies) :
                      /\ CallsBefore(p, {"prepare_dependency"}, d) = 1
                      /\ CallsBefore(p, EdgeOps, d) = d
                /\ \A q \in 1 .. Len(calls) :
                      /\ q < p => calls[q].op \in LinkOps \cup {"prepare_crate"}
                      /\ q > p => calls[q].op \in OptimizerOps \cup ShaperOps
          /\ calls[p].op \in OptimizerOps =>
                p > 1 /\ calls[p - 1].op \in FrontendOps /\ calls[p - 1].ok
          /\ calls[p].op \in ShaperOps =>
                p > 1 /\ calls[p - 1].op \in OptimizerOps /\ calls[p - 1].ok
    /\ result.kind \in {"Ok", "Err"} =>
          Cardinality({p \in 1 .. Len(calls) : calls[p].op \in FrontendOps}) = 1
    /\ Terminated =>
          \/ result.kind = "Ok" /\ panic = None
          \/ result.kind = "Err" /\ panic = None
          \/ result = NoResult /\ IsSome(panic)
    /\ ~Terminated => (result = NoResult /\ panic = None /\ ENABLED Next)

C9_ArtifactAfterThreeLibraries ==
    /\ pc = "returned"
    /\ result.kind = "Ok"
    /\ Len(linked) = 3
    /\ Len(calls) = 13

----------------------------------------------------------------------------
(* C10 *)

\* C10: as long as every descriptor got a crate of its own, every edge that
\* leaves a library crate goes to a library registered after it, the edges a
\* running add_noir_lib call has added to library crates all go to the library
\* of this call, the graph is acyclic, and no add_dep has found a cycle.
C10_EdgesPointForward ==
    AllFresh =>
        /\ \A c \in LibraryCrates : \A t \in Targets(deps, c) :
              t # root_crate_id /\ t \in LibraryCrates /\ t > c
        /\ \A c \in LibraryCrates :
              c <= Len(pre_deps) =>
                 \A k \in Len(pre_deps[c]) + 1 .. Len(deps[c]) :
                    deps[c][k].crate_id = library_crate_id /\ c < library_crate_id
        /\ Acyclic(deps)
        /\ ~cycle_hit
        /\ pc = "aborted" => Unwrap(panic).kind # "cyclic"

C10_ThirdLibraryBeingAttached ==
    /\ AllFresh
    /\ Len(linked) = 3
    /\ pc = "attach_others"
    /\ Len(other_crate_ids) = 1
    /\ HasEdge(3, library_name, library_crate_id)

====
